---- MODULE Spec2Model ----
(***************************************************************************)
(* Model of cosignerd's signing decision engine (process_sign_message)     *)
(* and of the signed_outpoints table it reads and appends to.              *)
(*                                                                         *)
(* The database is the set of rows of the signed_outpoints table.  A Spend *)
(* transaction is a record                                                 *)
(*   [input     : the unsigned transaction's inputs, a sequence of         *)
(*                previous outputs (txid, vout),                           *)
(*    output    : everything else the signature hash commits to,           *)
(*    inputs    : the PSBT inputs, a sequence of                           *)
(*                [witness_utxo : BOOLEAN, partial_sigs : key -> bytes],   *)
(*    finalized : BOOLEAN].                                                *)
(***************************************************************************)
EXTENDS Integers, Sequences, FiniteSets, TLC

\* ------------------------------------------------------------------------
\* Bounds of the model
\* ------------------------------------------------------------------------

\* Largest number of inputs of a submitted Spend transaction.
MaxInputs == 3

\* The previous outputs requests may spend: (txid, vout) pairs.
Outpoints == { <<1, 0>>, <<1, 1>> }

\* The output sides a submitted Spend transaction may have.
Outputs == { "pay_a", "pay_b" }

\* ------------------------------------------------------------------------
\* Keys, signatures, signature hashes
\* ------------------------------------------------------------------------

\* SigHashType::All as u8
SIGHASH_ALL == 1

\* The cosigner's Bitcoin private key (bitcoin_privkey).
bitcoin_privkey == "cosigner_secret"

\* BitcoinPubkey { compressed: true, key: PublicKey::from_secret_key(..) }
PubKeyOf(privkey) == <<"pub", privkey>>

our_pubkey == PubKeyOf(bitcoin_privkey)

\* A manager's public key, under which a request may already carry a signature.
manager_pubkey == <<"pub", "manager_secret">>

\* The bytes of a partial signature that came with the request.
ForeignSig == <<"foreign">>

\* Option<T>: None is the empty sequence, Some(x) is <<x>>.
None == <<>>

Some(x) == <<x>>

\* spend_tx.signature_hash_internal_input(i, SigHashType::All): fails when the
\* PSBT input lacks its witness UTXO, and otherwise commits (SIGHASH_ALL) to
\* every previous output, to the index of the input and to the outputs.
signature_hash_internal_input(tx, i, sighash_type) ==
    IF i \in DOMAIN tx.inputs /\ tx.inputs[i].witness_utxo
    THEN [ok |-> TRUE, hash |-> <<tx.input, tx.output, i, sighash_type>>]
    ELSE [ok |-> FALSE, hash |-> <<>>]

\* secp.sign(&sighash, bitcoin_privkey): deterministic ECDSA.
SecpSign(sighash, privkey) == [msg |-> sighash, key |-> privkey]

\* signature.serialize_der().to_vec()
serialize_der(signature) == <<signature>>

\* ------------------------------------------------------------------------
\* The signed_outpoints table
\* ------------------------------------------------------------------------

\* DbRow storing the signature with the sighash type already pushed.
DbRow_with_sighash_type(outpoint, signature) ==
    [txid |-> outpoint[1], vout |-> outpoint[2],
     signature |-> Append(signature, SIGHASH_ALL)]

\* A row of signed_outpoints (txid, vout, signature).
DbRow(outpoint, signature) ==
    [txid |-> outpoint[1], vout |-> outpoint[2], signature |-> signature]

\* RowsFor with the second parameter bound to both columns.
RowsFor_vout_bound_twice(db, outpoint) ==
    { r \in db : r.txid = outpoint[2] /\ r.vout = outpoint[2] }

\* SELECT * FROM signed_outpoints WHERE txid = (?1) AND vout = (?2)
RowsFor(db, outpoint) ==
    { r \in db : r.txid = outpoint[1] /\ r.vout = outpoint[2] }

\* db_signed_outpoint with a query on txid alone.
db_signed_outpoint_by_txid(db, outpoint) ==
    IF { r \in db : r.txid = outpoint[1] } = {} THEN None
    ELSE Some(CHOOSE r \in { q \in db : q.txid = outpoint[1] } : TRUE)

\* db_signed_outpoint: Ok(None) when no row matches, else Ok(Some(row)).
db_signed_outpoint(db, outpoint) ==
    IF RowsFor(db, outpoint) = {} THEN None
    ELSE Some(CHOOSE r \in RowsFor(db, outpoint) : TRUE)

\* db_insert_signed_outpoint on a table without UNIQUE(txid, vout).
db_insert_signed_outpoint_without_unique(db, outpoint, signature, io_error) ==
    LET row == DbRow(outpoint, signature)
    IN  IF io_error
        THEN [ok |-> FALSE, db |-> db]
        ELSE [ok |-> TRUE, db |-> db \cup { row }]

\* db_insert_signed_outpoint as INSERT OR REPLACE.
db_insert_signed_outpoint_or_replace(db, outpoint, signature, io_error) ==
    LET row == DbRow(outpoint, signature)
    IN  IF io_error
        THEN [ok |-> FALSE, db |-> db]
        ELSE [ok |-> TRUE,
              db |-> (db \ RowsFor(db, <<row.txid, row.vout>>)) \cup { row }]

\* db_insert_signed_outpoint as INSERT OR REPLACE on a table whose UNIQUE
\* constraint names txid alone.
db_insert_signed_outpoint_replacing_txid(db, outpoint, signature, io_error) ==
    LET row == DbRow(outpoint, signature)
    IN  IF io_error
        THEN [ok |-> FALSE, db |-> db]
        ELSE [ok |-> TRUE,
              db |-> { r \in db : r.txid # row.txid } \cup { row }]

\* INSERT OR IGNORE: an insert for a recorded outpoint returns Ok and leaves
\* the row that is there.
db_insert_signed_outpoint_ignoring_conflict(db, outpoint, signature, io_error) ==
    LET row == DbRow(outpoint, signature)
    IN  IF io_error
        THEN [ok |-> FALSE, db |-> db]
        ELSE IF RowsFor(db, <<row.txid, row.vout>>) # {}
        THEN [ok |-> TRUE, db |-> db]
        ELSE [ok |-> TRUE, db |-> db \cup {row}]

\* db_insert_signed_outpoint returning before its transaction is committed.
db_insert_signed_outpoint_uncommitted(db, outpoint, signature, io_error) ==
    LET row == DbRow(outpoint, signature)
    IN  IF io_error \/ RowsFor(db, <<row.txid, row.vout>>) # {}
        THEN [ok |-> FALSE, db |-> db]
        ELSE [ok |-> TRUE, db |-> db]

\* db_insert_signed_outpoint: one INSERT inside its own transaction (db_exec),
\* of the row (txid, vout, signature) the schema asks for and
\* process_sign_message passes.  The INSERT fails on UNIQUE(txid, vout);
\* io_error stands for a failure to open the database, to start the
\* transaction or to commit it, all of which leave the table as it was.
db_insert_signed_outpoint(db, outpoint, signature, io_error) ==
    LET row == DbRow(outpoint, signature)
    IN  IF io_error \/ RowsFor(db, <<row.txid, row.vout>>) # {}
        THEN [ok |-> FALSE, db |-> db]
        ELSE [ok |-> TRUE, db |-> db \cup { row }]

\* ------------------------------------------------------------------------
\* The database file: creation and the check made at startup
\* ------------------------------------------------------------------------

\* pub const DB_VERSION: u32 = 0;
DB_VERSION == 0

\* The database file as setup_db sees it: whether it exists, the rows of
\* db_params (a sequence, in the order a SELECT returns them) and the rows of
\* signed_outpoints.
Store(exists, params, rows) ==
    [exists |-> exists, params |-> params, rows |-> rows]

\* db_version: the last row SELECT version FROM db_params returns; an error
\* when the query fails (io_error, or a file without the tables) or returns no
\* row.  err is the DatabaseError's message, "" for Ok.
db_version(params, io_error) ==
    IF io_error
    THEN [err |-> "Executing query", version |-> 0]
    ELSE IF params = <<>>
    THEN [err |-> "No row in version table?", version |-> 0]
    ELSE [err |-> "", version |-> params[Len(params)].version]

\* create_db opening the file with create and truncate instead of create_new.
create_db_truncating(store, io_fail_at) ==
    IF io_fail_at = 1
    THEN [err |-> "Creating db file", store |-> store]
    ELSE IF io_fail_at = 2
    THEN [err |-> "Creating database", store |-> Store(TRUE, <<>>, {})]
    ELSE [err |-> "",
          store |-> Store(TRUE, <<[version |-> DB_VERSION]>>, {})]

\* create_db: create_db_file (create_new, so it fails on an existing file;
\* io_fail_at = 1 is any other failure to create it), then the schema and the
\* version row in one transaction (io_fail_at = 2: the transaction fails and
\* leaves the file it was to fill).
create_db(store, io_fail_at) ==
    IF store.exists \/ io_fail_at = 1
    THEN [err |-> "Creating db file", store |-> store]
    ELSE IF io_fail_at = 2
    THEN [err |-> "Creating database", store |-> Store(TRUE, <<>>, {})]
    ELSE [err |-> "",
          store |-> Store(TRUE, <<[version |-> DB_VERSION]>>, {})]

\* check_db turning down only the databases older than DB_VERSION.
check_db_rejects_only_older(store, io_fail_at) ==
    LET version == db_version(store.params, io_fail_at = 3)
    IN  IF version.err # "" THEN version.err
        ELSE IF version.version < DB_VERSION
        THEN "Unexpected database version"
        ELSE ""

\* check_db: "Check if their database is not from the future"; no migration,
\* the version must be DB_VERSION (io_fail_at = 3: the query fails).
check_db(store, io_fail_at) ==
    LET version == db_version(store.params, io_fail_at = 3)
    IN  IF version.err # "" THEN version.err
        ELSE IF version.version # DB_VERSION
        THEN "Unexpected database version"
        ELSE ""

\* setup_db making the database anew whatever it finds.
setup_db_recreating(store, io_fail_at) ==
    LET created_ == create_db(Store(FALSE, <<>>, {}), io_fail_at)
    IN  IF created_.err # ""
        THEN [err |-> created_.err, store |-> created_.store]
        ELSE [err |-> check_db(created_.store, io_fail_at),
              store |-> created_.store]

\* setup_db: create the database if there is no file, then check it.
setup_db(store, io_fail_at) ==
    LET created == IF ~store.exists
                   THEN create_db(store, io_fail_at)
                   ELSE [err |-> "", store |-> store]
    IN  IF created.err # ""
        THEN [err |-> created.err, store |-> created.store]
        ELSE [err |-> check_db(created.store, io_fail_at),
              store |-> created.store]

\* ------------------------------------------------------------------------
\* process_sign_message
\* ------------------------------------------------------------------------

\* partial_sigs.insert(key, sig): the map with sig under key, replacing any
\* signature that was there.
BTreeInsert(partial_sigs, key, sig) ==
    [k \in (DOMAIN partial_sigs) \cup {key} |->
        IF k = key THEN sig ELSE partial_sigs[k]]

\* The duplicate check made for input i: more than one input of the
\* transaction spends input i's previous output.
SpendsTwice(tx, i) ==
    Cardinality({ j \in DOMAIN tx.input : tx.input[j] = tx.input[i] }) > 1

\* "Gather what signatures we have for these prevouts": the loop over the
\* inputs, from input i on.  The k-th access to the database made by the call
\* fails when k = io_fail_at; the lookup for input i is the i-th access.
RECURSIVE GatherSignatures(_, _, _, _, _)
GatherSignatures(db, tx, i, signatures, io_fail_at) ==
    IF i > Len(tx.input)
    THEN [err |-> "", signatures |-> signatures, lookups |-> i - 1]
    ELSE IF SpendsTwice(tx, i)
    THEN [err |-> "Garbage", signatures |-> signatures, lookups |-> i - 1]
    ELSE IF io_fail_at = i
    THEN [err |-> "Database", signatures |-> signatures, lookups |-> i]
    ELSE LET signed_op == db_signed_outpoint(db, tx.input[i])
         IN  GatherSignatures(db, tx, i + 1,
                 IF signed_op # None
                 THEN Append(signatures, signed_op[1].signature)
                 ELSE signatures,
                 io_fail_at)

\* AttachStored signing the submitted transaction anew instead of attaching
\* what the database holds.
AttachStored_signs_anew(tx, signatures) ==
    [tx EXCEPT !.inputs =
        [i \in DOMAIN tx.inputs |->
            [tx.inputs[i] EXCEPT !.partial_sigs =
                BTreeInsert(@, our_pubkey,
                    Append(serialize_der(SecpSign(
                        signature_hash_internal_input(tx, i, SIGHASH_ALL).hash,
                        bitcoin_privkey)), SIGHASH_ALL))]]]

\* AttachStored without the push of the sighash type.
AttachStored_without_sighash_type(tx, signatures) ==
    [tx EXCEPT !.inputs =
        [i \in DOMAIN tx.inputs |->
            [tx.inputs[i] EXCEPT !.partial_sigs =
                BTreeInsert(@, our_pubkey, signatures[i])]]]

\* AttachStored putting the first gathered signature in every input.
AttachStored_first_everywhere(tx, signatures) ==
    [tx EXCEPT !.inputs =
        [i \in DOMAIN tx.inputs |->
            [tx.inputs[i] EXCEPT !.partial_sigs =
                BTreeInsert(@, our_pubkey, Append(signatures[1], SIGHASH_ALL))]]]

\* "If we had all the signatures for all these outpoints, send them": the
\* i-th gathered signature, with the sighash type pushed, goes under our key
\* in the i-th PSBT input.
AttachStored(tx, signatures) ==
    [tx EXCEPT !.inputs =
        [i \in DOMAIN tx.inputs |->
            [tx.inputs[i] EXCEPT !.partial_sigs =
                BTreeInsert(@, our_pubkey, Append(signatures[i], SIGHASH_ALL))]]]

\* SignFresh going on after a failed insert.
RECURSIVE SignFresh_ignores_insert_error(_, _, _, _, _)
SignFresh_ignores_insert_error(db, tx, psbtins, i, io_fail_at) ==
    IF i > Len(psbtins)
    THEN [err |-> "", psbtins |-> psbtins, db |-> db,
          signed |-> i - 1, inserts |-> i - 1]
    ELSE
    LET sighash == signature_hash_internal_input(tx, i, SIGHASH_ALL)
    IN  IF ~sighash.ok
        THEN [err |-> "InsanePsbtMissingInput", psbtins |-> psbtins, db |-> db,
              signed |-> i - 1, inserts |-> i - 1]
        ELSE
        LET signature == SecpSign(sighash.hash, bitcoin_privkey)
            raw_sig   == Append(serialize_der(signature), SIGHASH_ALL)
            was_none  == our_pubkey \notin DOMAIN psbtins[i].partial_sigs
            signed_in == [psbtins EXCEPT ![i].partial_sigs =
                              BTreeInsert(@, our_pubkey, raw_sig)]
            inserted  == db_insert_signed_outpoint(db, tx.input[i],
                             serialize_der(signature),
                             io_fail_at = Len(tx.input) + i)
        IN  IF ~was_none
            THEN [err |-> "Panic", psbtins |-> signed_in, db |-> db,
                  signed |-> i, inserts |-> i - 1]
            ELSE SignFresh_ignores_insert_error(inserted.db, tx, signed_in,
                                                i + 1, io_fail_at)

\* "If we signed none of the input, append fresh signatures for each of them":
\* the loop over the cloned PSBT inputs, from input i on.  The insert for input
\* i is access Len(tx.input) + i to the database.
RECURSIVE SignFresh(_, _, _, _, _)
SignFresh(db, tx, psbtins, i, io_fail_at) ==
    IF i > Len(psbtins)
    THEN [err |-> "", psbtins |-> psbtins, db |-> db,
          signed |-> i - 1, inserts |-> i - 1]
    ELSE
    LET sighash == signature_hash_internal_input(tx, i, SIGHASH_ALL)
    IN  IF ~sighash.ok
        THEN [err |-> "InsanePsbtMissingInput", psbtins |-> psbtins, db |-> db,
              signed |-> i - 1, inserts |-> i - 1]
        ELSE
        LET signature == SecpSign(sighash.hash, bitcoin_privkey)
            raw_sig   == Append(serialize_der(signature), SIGHASH_ALL)
            was_none  == our_pubkey \notin DOMAIN psbtins[i].partial_sigs
            signed_in == [psbtins EXCEPT ![i].partial_sigs =
                              BTreeInsert(@, our_pubkey, raw_sig)]
            inserted  == db_insert_signed_outpoint(db, tx.input[i],
                             serialize_der(signature),
                             io_fail_at = Len(tx.input) + i)
        IN  IF ~was_none
            THEN [err |-> "Panic", psbtins |-> signed_in, db |-> db,
                  signed |-> i, inserts |-> i - 1]
            ELSE IF ~inserted.ok
            THEN [err |-> "Database", psbtins |-> signed_in, db |-> db,
                  signed |-> i, inserts |-> i]
            ELSE SignFresh(inserted.db, tx, signed_in, i + 1, io_fail_at)

\* What a call hands back and what it did.  ret is "Ok" (with tx the
\* SignResult's Option<SpendTransaction>), "Err" (with err the
\* SignProcessingError) or "Panic" (a failed assert!); lookups, inserts and
\* signed count the lookups and inserts attempted and the signatures computed,
\* and failed tells which access to the database failed: "lookup", "insert" or
\* "" for none.
Outcome(ret, err, tx, db, lookups, inserts, signed, failed) ==
    [ret |-> ret, err |-> err, tx |-> tx, db |-> db,
     lookups |-> lookups, inserts |-> inserts, signed |-> signed,
     failed |-> failed]

\* null_signature()
null_signature == None

\* process_sign_message without "If we already signed some of the outpoints,
\* don't sign anything else!".
process_sign_message_without_refusal(db, tx, io_fail_at) ==
    LET n_inputs == Len(tx.input)
    IN
    IF tx.finalized
    THEN Outcome("Err", "Garbage", None, db, 0, 0, 0, "")
    ELSE
    LET gathered == GatherSignatures(db, tx, 1, <<>>, io_fail_at)
        signatures == gathered.signatures
    IN
    IF gathered.err # ""
    THEN Outcome("Err", gathered.err, None, db, gathered.lookups, 0, 0,
                 IF gathered.err = "Database" THEN "lookup" ELSE "")
    ELSE IF Len(signatures) = n_inputs
    THEN Outcome("Ok", "", Some(AttachStored(tx, signatures)), db,
                 gathered.lookups, 0, 0, "")
    ELSE
    LET fresh == SignFresh(db, tx, tx.inputs, 1, io_fail_at)
    IN  IF fresh.err = "Panic"
        THEN Outcome("Panic", "", None, fresh.db,
                     gathered.lookups, fresh.inserts, fresh.signed, "")
        ELSE IF fresh.err # ""
        THEN Outcome("Err", fresh.err, None, fresh.db,
                     gathered.lookups, fresh.inserts, fresh.signed,
                     IF fresh.err = "Database" THEN "insert" ELSE "")
        ELSE Outcome("Ok", "", Some([tx EXCEPT !.inputs = fresh.psbtins]),
                     fresh.db, gathered.lookups, fresh.inserts, fresh.signed, "")

\* process_sign_message refusing a full replay when a stored signature is not
\* the signature of the transaction in the request.
process_sign_message_refusing_mismatch(db, tx, io_fail_at) ==
    LET n_inputs == Len(tx.input)
    IN
    IF tx.finalized
    THEN Outcome("Err", "Garbage", None, db, 0, 0, 0, "")
    ELSE
    LET gathered == GatherSignatures(db, tx, 1, <<>>, io_fail_at)
        signatures == gathered.signatures
    IN
    IF gathered.err # ""
    THEN Outcome("Err", gathered.err, None, db, gathered.lookups, 0, 0,
                 IF gathered.err = "Database" THEN "lookup" ELSE "")
    ELSE IF Len(signatures) = n_inputs
    THEN IF \E i \in 1..n_inputs :
               signatures[i] # serialize_der(SecpSign(
                   signature_hash_internal_input(tx, i, SIGHASH_ALL).hash,
                   bitcoin_privkey))
         THEN Outcome("Ok", "", null_signature, db, gathered.lookups, 0, 0, "")
         ELSE Outcome("Ok", "", Some(AttachStored(tx, signatures)), db,
                      gathered.lookups, 0, 0, "")
    ELSE IF signatures # <<>>
    THEN Outcome("Ok", "", null_signature, db, gathered.lookups, 0, 0, "")
    ELSE
    LET fresh == SignFresh(db, tx, tx.inputs, 1, io_fail_at)
    IN  IF fresh.err = "Panic"
        THEN Outcome("Panic", "", None, fresh.db,
                     gathered.lookups, fresh.inserts, fresh.signed, "")
        ELSE IF fresh.err # ""
        THEN Outcome("Err", fresh.err, None, fresh.db,
                     gathered.lookups, fresh.inserts, fresh.signed,
                     IF fresh.err = "Database" THEN "insert" ELSE "")
        ELSE Outcome("Ok", "", Some([tx EXCEPT !.inputs = fresh.psbtins]),
                     fresh.db, gathered.lookups, fresh.inserts, fresh.signed, "")

\* process_sign_message without the is_finalized() check.
process_sign_message_without_finalized_check(db, tx, io_fail_at) ==
    LET n_inputs == Len(tx.input)
        gathered == GatherSignatures(db, tx, 1, <<>>, io_fail_at)
        signatures == gathered.signatures
    IN
    IF gathered.err # ""
    THEN Outcome("Err", gathered.err, None, db, gathered.lookups, 0, 0,
                 IF gathered.err = "Database" THEN "lookup" ELSE "")
    ELSE IF Len(signatures) = n_inputs
    THEN Outcome("Ok", "", Some(AttachStored(tx, signatures)), db,
                 gathered.lookups, 0, 0, "")
    ELSE IF signatures # <<>>
    THEN Outcome("Ok", "", null_signature, db, gathered.lookups, 0, 0, "")
    ELSE
    LET fresh == SignFresh(db, tx, tx.inputs, 1, io_fail_at)
    IN  IF fresh.err = "Panic"
        THEN Outcome("Panic", "", None, fresh.db,
                     gathered.lookups, fresh.inserts, fresh.signed, "")
        ELSE IF fresh.err # ""
        THEN Outcome("Err", fresh.err, None, fresh.db,
                     gathered.lookups, fresh.inserts, fresh.signed,
                     IF fresh.err = "Database" THEN "insert" ELSE "")
        ELSE Outcome("Ok", "", Some([tx EXCEPT !.inputs = fresh.psbtins]),
                     fresh.db, gathered.lookups, fresh.inserts, fresh.signed, "")

\* process_sign_message: the outcome of the call on tx with the table db.
process_sign_message(db, tx, io_fail_at) ==
    LET n_inputs == Len(tx.input)
    IN
    IF tx.finalized
    THEN Outcome("Err", "Garbage", None, db, 0, 0, 0, "")
    ELSE
    LET gathered == GatherSignatures(db, tx, 1, <<>>, io_fail_at)
        signatures == gathered.signatures
    IN
    IF gathered.err # ""
    THEN Outcome("Err", gathered.err, None, db, gathered.lookups, 0, 0,
                 IF gathered.err = "Database" THEN "lookup" ELSE "")
    ELSE IF Len(signatures) = n_inputs
    THEN Outcome("Ok", "", Some(AttachStored(tx, signatures)), db,
                 gathered.lookups, 0, 0, "")
    ELSE IF signatures # <<>>
    THEN Outcome("Ok", "", null_signature, db, gathered.lookups, 0, 0, "")
    ELSE
    LET fresh == SignFresh(db, tx, tx.inputs, 1, io_fail_at)
    IN  IF fresh.err = "Panic"
        THEN Outcome("Panic", "", None, fresh.db,
                     gathered.lookups, fresh.inserts, fresh.signed, "")
        ELSE IF fresh.err # ""
        THEN Outcome("Err", fresh.err, None, fresh.db,
                     gathered.lookups, fresh.inserts, fresh.signed,
                     IF fresh.err = "Database" THEN "insert" ELSE "")
        ELSE Outcome("Ok", "", Some([tx EXCEPT !.inputs = fresh.psbtins]),
                     fresh.db, gathered.lookups, fresh.inserts, fresh.signed, "")

\* ------------------------------------------------------------------------
\* The requests a manager may send
\* ------------------------------------------------------------------------

\* A PSBT input that has its witness UTXO iff utxo and carries a signature
\* under each key of keys.
PsbtInput(utxo, keys) ==
    [witness_utxo |-> utxo, partial_sigs |-> [k \in keys |-> ForeignSig]]

\* The Spend transaction spending prevouts to output.  Input missing_at (if
\* any) lacks its witness UTXO, input ours_at (if any) already carries a
\* signature under our key, and every input carries a manager's signature iff
\* by_manager.
SpendTx(prevouts, output, missing_at, ours_at, by_manager, finalized) ==
    [input     |-> prevouts,
     output    |-> output,
     inputs    |-> [i \in DOMAIN prevouts |->
                      PsbtInput(i # missing_at,
                                (IF by_manager THEN {manager_pubkey} ELSE {})
                                \cup (IF i = ours_at THEN {our_pubkey} ELSE {}))],
     finalized |-> finalized]

\* The Sign requests that may come in: Spend transactions of one to MaxInputs
\* inputs.
SignRequests ==
    { SpendTx(p, o, m, s, b, f) :
        p \in UNION { [1..n -> Outpoints] : n \in 1..MaxInputs },
        o \in Outputs,
        m \in 0..MaxInputs, s \in 0..MaxInputs,
        b \in BOOLEAN, f \in BOOLEAN }

\* ------------------------------------------------------------------------
\* State: the data directory, the configuration and daemon_main's loop
\* ------------------------------------------------------------------------

\* Most connections the listener holds that the loop has not accepted yet.
MaxPending == 1

\* config.network
Networks == { "bitcoin", "testnet" }

VARIABLES
    db,         \* the rows of signed_outpoints
    db_before,  \* the rows when the request in hand was read
    sign_msg,   \* the request in hand, None while waiting for a connection
    result,     \* what process_sign_message did with it, None until it returns
    handed_out, \* the <<outpoint, signature>> pairs of the cosigner's
                \* signatures sent back in Sign results so far
    pending,    \* the connections made to the listener and not yet accepted
    in_flight,  \* the calls of process_sign_message that have not returned
    committed,  \* the <<outpoint, signature>> pairs of the inserts that
                \* returned Ok
    db_exists,  \* whether the database file exists
    db_params,  \* the rows of db_params
    network,    \* the network of the configuration
    db_made_for,\* the network configured when the database file was created
    setup,      \* what setup_db returned at the last start: "Ok" or the
                \* error's message, "none" before main has called it
    created,    \* what the last call of create_db on its own returned: "Ok"
                \* or the error's message, "none" when there was none
    last_conn,  \* what became of the last connection the loop took since
                \* the process started: "handshake_failed", "undecodable",
                \* "not_sign" or "sign"; "none" when it took none yet
    written,    \* the responses written so far on the connection of the
                \* request in hand
    calls       \* the calls of process_sign_message running side by side

loop_vars  == <<db_before, sign_msg, result, handed_out, pending, in_flight,
                committed, last_conn, written>>

store_vars == <<db_exists, db_params, network, db_made_for, setup, created>>

vars == <<db, loop_vars, store_vars, calls>>

\* A call that is not running.
IdleCall ==
    [pc |-> "idle", tx |-> None, i |-> 0, signatures |-> <<>>,
     psbtins |-> <<>>, ret |-> "", err |-> "", result_tx |-> None,
     io_failed |-> FALSE]

\* The callers of the interleaved specification.
Callers == { 1, 2 }

\* The database file as the variables hold it.
TheStore == Store(db_exists, db_params, db)

\* main up to daemon_main on an empty data directory: setup_db creates the
\* database (the schema's tables, signed_outpoints empty, the version row) and
\* checks it; then daemon_main waits for a connection.
Init ==
    LET made == setup_db(Store(FALSE, <<>>, {}), 0)
    IN  /\ db = made.store.rows
        /\ db_exists = made.store.exists
        /\ db_params = made.store.params
        /\ network = "bitcoin"
        /\ db_made_for = "bitcoin"
        /\ setup = IF made.err = "" THEN "Ok" ELSE made.err
        /\ db_before = {}
        /\ sign_msg = None
        /\ result = None
        /\ handed_out = {}
        /\ pending = 0
        /\ in_flight = 0
        /\ committed = {}
        /\ created = "none"
        /\ last_conn = "none"
        /\ written = <<>>
        /\ calls = [p \in Callers |-> IdleCall]

\* The cosigner's signatures a SignResult carries, each with the previous
\* output of its input.
OurSignatures(sign_result_tx) ==
    IF sign_result_tx = None THEN {}
    ELSE LET tx == sign_result_tx[1]
         IN  { <<tx.input[i], tx.inputs[i].partial_sigs[our_pubkey]>> :
                 i \in { j \in DOMAIN tx.inputs :
                            our_pubkey \in DOMAIN tx.inputs[j].partial_sigs } }

\* The <<outpoint, signature>> pairs of the inserts of a call on tx that
\* returned Ok: the call made out.inserts of them, in the order of the inputs,
\* the last of which failed if out.failed = "insert".
CommittedBy(tx, out) ==
    { <<tx.input[i],
        serialize_der(SecpSign(
            signature_hash_internal_input(tx, i, SIGHASH_ALL).hash,
            bitcoin_privkey))>> :
        i \in 1..(IF out.failed = "insert" THEN out.inserts - 1
                  ELSE out.inserts) }

\* The process is up: setup_db succeeded and no call has panicked.
Running ==
    /\ setup = "Ok"
    /\ IF result = None THEN TRUE ELSE result[1].ret # "Panic"

\* A manager connects to the listener.
Connect ==
    /\ Running
    /\ pending < MaxPending
    /\ pending' = pending + 1
    /\ UNCHANGED <<db, db_before, sign_msg, result, handed_out, in_flight,
                   committed, last_conn, written, store_vars, calls>>

\* Accept taking the next connection whatever the loop is doing.
Accept_while_processing ==
    /\ setup = "Ok"
    /\ result = None
    /\ pending > 0
    /\ \E tx \in SignRequests :
        /\ sign_msg' = Some(tx)
        /\ pending' = pending - 1
        /\ in_flight' = in_flight + 1
        /\ db_before' = db
        /\ last_conn' = "sign"
        /\ written' = <<>>
        /\ UNCHANGED <<db, result, handed_out, committed, store_vars, calls>>

\* The loop, waiting, accepts a connection, reads a Sign request from it and
\* calls process_sign_message.
Accept ==
    /\ setup = "Ok"
    /\ sign_msg = None
    /\ result = None
    /\ pending > 0
    /\ \E tx \in SignRequests :
        /\ sign_msg' = Some(tx)
        /\ pending' = pending - 1
        /\ in_flight' = in_flight + 1
        /\ db_before' = db
        /\ last_conn' = "sign"
        /\ written' = <<>>
        /\ UNCHANGED <<db, result, handed_out, committed, store_vars, calls>>

\* The closure handing back nothing, so that the connection is dropped, when
\* the call returned the null result.
Response_drops_refusal(out) ==
    IF out.ret = "Ok" /\ out.tx # None THEN Some(out.tx) ELSE None

\* The closure handing back the null result when the call returned an error.
Response_null_on_error(out) ==
    IF out.ret = "Ok" THEN Some(out.tx) ELSE Some(null_signature)

\* What read_req's closure hands back to be written on the connection:
\* Some(ResponseResult::SignResult(res)) when the call returned Ok(res), None
\* when it returned an error.
Response(out) ==
    IF out.ret = "Ok" THEN Some(out.tx) ELSE None

\* HandleSign with the lookups served from rows kept in memory, those of the
\* previous outputs whose signatures were sent back, in place of the table.
HandleSign_with_memory ==
    /\ sign_msg # None
    /\ result = None
    /\ \E io_fail_at \in 0..(2 * MaxInputs) :
        /\ io_fail_at <= 2 * Len(sign_msg[1].input)
        /\ LET kept == { r \in db : \E h \in handed_out :
                                       h[1] = <<r.txid, r.vout>> }
               out  == process_sign_message(kept, sign_msg[1], io_fail_at)
           IN  /\ db' = db \cup out.db
               /\ db_before' = db
               /\ result' = Some(out)
               /\ in_flight' = in_flight - 1
               /\ committed' = committed \cup CommittedBy(sign_msg[1], out)
               /\ handed_out' = handed_out \cup
                     (IF out.ret = "Ok" THEN OurSignatures(out.tx) ELSE {})
               /\ written' = written \o Response(out)
    /\ UNCHANGED <<sign_msg, pending, last_conn, store_vars, calls>>

\* process_sign_message runs on the request in hand, any one of its database
\* accesses failing (or none), and returns or panics; read_req writes on the
\* connection what the closure hands back.
HandleSign ==
    /\ sign_msg # None
    /\ result = None
    /\ \E io_fail_at \in 0..(2 * MaxInputs) :
        /\ io_fail_at <= 2 * Len(sign_msg[1].input)
        /\ LET out == process_sign_message(db, sign_msg[1], io_fail_at)
           IN  /\ db' = out.db
               /\ db_before' = db
               /\ result' = Some(out)
               /\ in_flight' = in_flight - 1
               /\ committed' = committed \cup CommittedBy(sign_msg[1], out)
               /\ handed_out' = handed_out \cup
                     (IF out.ret = "Ok" THEN OurSignatures(out.tx) ELSE {})
               /\ written' = written \o Response(out)
    /\ UNCHANGED <<sign_msg, pending, last_conn, store_vars, calls>>

\* The call returned: the response is written (Ok) or the error is logged
\* (Err), the connection is dropped and the loop waits for the next one.
Continue ==
    /\ result # None
    /\ result[1].ret # "Panic"
    /\ sign_msg' = None
    /\ result' = None
    /\ db_before' = db
    /\ written' = <<>>
    /\ UNCHANGED <<db, handed_out, pending, in_flight, committed, last_conn,
                   store_vars, calls>>

\* The handshake failing with the process exiting on the error.
HandshakeFails_fatal ==
    /\ setup = "Ok"
    /\ sign_msg = None
    /\ result = None
    /\ pending > 0
    /\ pending' = pending - 1
    /\ last_conn' = "handshake_failed"
    /\ setup' = "Error during handshake"
    /\ UNCHANGED <<db, db_before, sign_msg, result, handed_out, in_flight,
                   committed, written, db_exists, db_params, network,
                   db_made_for, created, calls>>

\* The loop, waiting, takes a connection whose Noise handshake fails
\* (KKTransport::accept returns Err): the error is logged and the loop goes on
\* to the next connection.
HandshakeFails ==
    /\ setup = "Ok"
    /\ sign_msg = None
    /\ result = None
    /\ pending > 0
    /\ pending' = pending - 1
    /\ last_conn' = "handshake_failed"
    /\ UNCHANGED <<db, db_before, sign_msg, result, handed_out, in_flight,
                   committed, written, store_vars, calls>>

\* ReadOther with the process exiting on a message that is not a Sign
\* request or cannot be decoded.
ReadOther_fatal ==
    /\ setup = "Ok"
    /\ sign_msg = None
    /\ result = None
    /\ pending > 0
    /\ pending' = pending - 1
    /\ \E kind \in { "undecodable", "not_sign" } : last_conn' = kind
    /\ setup' = "Unexpected message"
    /\ UNCHANGED <<db, db_before, sign_msg, result, handed_out, in_flight,
                   committed, written, db_exists, db_params, network,
                   db_made_for, created, calls>>

\* The loop, waiting, accepts a connection and reads from it a message that
\* cannot be decoded (read_req returns Err) or that is not a Sign request (the
\* closure returns None): the error is logged, process_sign_message is not
\* called and the loop goes on to the next connection.
ReadOther ==
    /\ setup = "Ok"
    /\ sign_msg = None
    /\ result = None
    /\ pending > 0
    /\ pending' = pending - 1
    /\ \E kind \in { "undecodable", "not_sign" } : last_conn' = kind
    /\ UNCHANGED <<db, db_before, sign_msg, result, handed_out, in_flight,
                   committed, written, store_vars, calls>>

\* The call panicked and took the process down, or setup_db failed and main
\* exited, or cosignerd is stopped while it waits for a connection; it is
\* started again on the same data directory, the connections that were
\* waiting being lost, and setup_db runs on the database file (or fails to
\* read it).
Restart ==
    /\ \/ result # None /\ result[1].ret = "Panic"
       \/ setup \notin { "none", "Ok" }
       \/ setup = "Ok" /\ sign_msg = None /\ result = None
    /\ \E io_fail_at \in 0..3 :
        LET again == setup_db(TheStore, io_fail_at)
        IN  /\ db' = again.store.rows
            /\ db_exists' = again.store.exists
            /\ db_params' = again.store.params
            /\ setup' = IF again.err = "" THEN "Ok" ELSE again.err
    /\ sign_msg' = None
    /\ result' = None
    /\ db_before' = db
    /\ pending' = 0
    /\ in_flight' = 0
    /\ last_conn' = "none"
    /\ written' = <<>>
    /\ UNCHANGED <<handed_out, committed, network, db_made_for, created, calls>>

Next ==
    \/ Connect
    \/ HandshakeFails
    \/ ReadOther
    \/ Accept
    \/ HandleSign
    \/ Continue
    \/ Restart

Spec == Init /\ [][Next]_vars

\* ------------------------------------------------------------------------
\* Starting cosignerd on a data directory
\* ------------------------------------------------------------------------

\* Largest version a database file found at startup may have.
MaxVersion == 2

\* The rows a database file found at startup may hold: signatures of the
\* transactions that spend one previous output.
LedgerRows ==
    { DbRow(o, serialize_der(SecpSign(<<<<o>>, out, 1, SIGHASH_ALL>>,
                                      bitcoin_privkey))) :
        o \in Outpoints, out \in Outputs }

\* The tables a database file found at startup may hold: at most one row for
\* each previous output.
Ledgers ==
    { rows \in SUBSET LedgerRows :
        \A r1, r2 \in rows :
            (r1.txid = r2.txid /\ r1.vout = r2.vout) => r1 = r2 }

\* main is about to call setup_db: the data directory holds no database, a
\* file create_db left without tables, or a database of some version made
\* under some configuration.
InitStartup ==
    /\ db_exists \in BOOLEAN
    /\ db_params \in { <<>> } \cup { <<[version |-> v]>> : v \in 0..MaxVersion }
    /\ db \in Ledgers
    /\ network \in Networks
    /\ db_made_for \in Networks
    /\ ~db_exists => (db_params = <<>> /\ db_made_for = network)
    /\ db_params = <<>> => db = {}
    /\ setup = "none"
    /\ db_before = {}
    /\ sign_msg = None
    /\ result = None
    /\ handed_out = {}
    /\ pending = 0
    /\ in_flight = 0
    /\ committed = {}
    /\ created = "none"
    /\ last_conn = "none"
    /\ written = <<>>
    /\ calls = [p \in Callers |-> IdleCall]

\* main calls setup_db on the database file, any one of its accesses failing
\* (or none).
Startup ==
    /\ setup = "none"
    /\ \E io_fail_at \in 0..3 :
        LET done == setup_db(TheStore, io_fail_at)
        IN  /\ db' = done.store.rows
            /\ db_exists' = done.store.exists
            /\ db_params' = done.store.params
            /\ db_made_for' = IF ~db_exists /\ done.store.exists
                              THEN network ELSE db_made_for
            /\ setup' = IF done.err = "" THEN "Ok" ELSE done.err
    /\ UNCHANGED <<network, created, loop_vars, calls>>

\* The process exits (setup_db failed) or is stopped, to be started again.
Stop ==
    /\ setup # "none"
    /\ setup' = "none"
    /\ UNCHANGED <<db, db_exists, db_params, network, db_made_for, created,
                   loop_vars, calls>>

\* create_db is called on the data directory as it is (as the tests
\* db_creation_sanity and test_db_creation call it on a database just made),
\* any one of its accesses failing (or none).
CreateDb ==
    /\ setup = "none"
    /\ \E io_fail_at \in 0..2 :
        LET made == create_db(TheStore, io_fail_at)
        IN  /\ db' = made.store.rows
            /\ db_exists' = made.store.exists
            /\ db_params' = made.store.params
            /\ db_made_for' = IF ~db_exists /\ made.store.exists
                              THEN network ELSE db_made_for
            /\ created' = IF made.err = "" THEN "Ok" ELSE made.err
    /\ UNCHANGED <<network, setup, loop_vars, calls>>

NextStartup == Startup \/ CreateDb \/ Stop

SpecStartup == InitStartup /\ [][NextStartup]_vars

\* ------------------------------------------------------------------------
\* process_sign_message called side by side on one database
\* ------------------------------------------------------------------------

\* Largest number of inputs of a transaction of an interleaved call.
MaxStressInputs == 2

\* The requests of the interleaved calls: unfinalized Spend transactions with
\* their witness UTXOs and no partial signature.
StressRequests ==
    { SpendTx(p, o, 0, 0, FALSE, FALSE) :
        p \in UNION { [1..n -> Outpoints] : n \in 1..MaxStressInputs },
        o \in Outputs }

\* The call has ended with ret ("Ok", "Err" or "Panic").
EndCall(call, ret, err, result_tx, io_failed) ==
    [call EXCEPT !.pc = "done", !.ret = ret, !.err = err,
                 !.result_tx = result_tx, !.io_failed = io_failed]

\* Caller p calls process_sign_message: the is_finalized() check.
Invoke(p) ==
    /\ calls[p].pc = "idle"
    /\ \E tx \in StressRequests :
        calls' = [calls EXCEPT ![p] =
            IF tx.finalized
            THEN EndCall([IdleCall EXCEPT !.tx = Some(tx)],
                         "Err", "Garbage", None, FALSE)
            ELSE [IdleCall EXCEPT !.pc = "gather", !.tx = Some(tx), !.i = 1,
                                  !.psbtins = tx.inputs]]
    /\ UNCHANGED <<db, loop_vars, store_vars>>

\* One round of the gathering loop of caller p: the duplicate check and the
\* lookup for input i, and after the last input the choice between replay,
\* refusal and fresh signing.
Lookup(p) ==
    /\ calls[p].pc = "gather"
    /\ LET call == calls[p]
           tx   == call.tx[1]
           i    == call.i
       IN  IF SpendsTwice(tx, i)
           THEN calls' = [calls EXCEPT ![p] =
                             EndCall(call, "Err", "Garbage", None, FALSE)]
           ELSE \E io_error \in BOOLEAN :
               IF io_error
               THEN calls' = [calls EXCEPT ![p] =
                                 EndCall(call, "Err", "Database", None, TRUE)]
               ELSE
               LET signed_op  == db_signed_outpoint(db, tx.input[i])
                   signatures == IF signed_op # None
                                 THEN Append(call.signatures,
                                             signed_op[1].signature)
                                 ELSE call.signatures
                   gathered   == [call EXCEPT !.signatures = signatures]
               IN  calls' = [calls EXCEPT ![p] =
                       IF i < Len(tx.input)
                       THEN [gathered EXCEPT !.i = i + 1]
                       ELSE IF Len(signatures) = Len(tx.input)
                       THEN EndCall(gathered, "Ok", "",
                                    Some(AttachStored(tx, signatures)), FALSE)
                       ELSE IF signatures # <<>>
                       THEN EndCall(gathered, "Ok", "", null_signature, FALSE)
                       ELSE [gathered EXCEPT !.pc = "sign", !.i = 1]]
    /\ UNCHANGED <<db, loop_vars, store_vars>>

\* One round of the signing loop of caller p: the signature hash of input i,
\* the signature, the assert and the insert.
SignInsert(p) ==
    /\ calls[p].pc = "sign"
    /\ LET call    == calls[p]
           tx      == call.tx[1]
           i       == call.i
           sighash == signature_hash_internal_input(tx, i, SIGHASH_ALL)
           signature == SecpSign(sighash.hash, bitcoin_privkey)
           raw_sig   == Append(serialize_der(signature), SIGHASH_ALL)
           was_none  == our_pubkey \notin DOMAIN call.psbtins[i].partial_sigs
           signed_in == [call EXCEPT !.psbtins[i].partial_sigs =
                             BTreeInsert(@, our_pubkey, raw_sig)]
       IN  IF ~sighash.ok
           THEN /\ calls' = [calls EXCEPT ![p] =
                     EndCall(call, "Err", "InsanePsbtMissingInput", None, FALSE)]
                /\ db' = db
           ELSE IF ~was_none
           THEN /\ calls' = [calls EXCEPT ![p] =
                     EndCall(signed_in, "Panic", "", None, FALSE)]
                /\ db' = db
           ELSE \E io_error \in BOOLEAN :
               LET inserted == db_insert_signed_outpoint(db, tx.input[i],
                                   serialize_der(signature), io_error)
               IN  /\ db' = inserted.db
                   /\ calls' = [calls EXCEPT ![p] =
                         IF ~inserted.ok
                         THEN EndCall(signed_in, "Err", "Database", None,
                                      io_error)
                         ELSE IF i < Len(tx.input)
                         THEN [signed_in EXCEPT !.i = i + 1]
                         ELSE EndCall(signed_in, "Ok", "",
                                  Some([tx EXCEPT !.inputs = signed_in.psbtins]),
                                  FALSE)]
    /\ UNCHANGED <<loop_vars, store_vars>>

\* Caller p has its answer and may call again.
Return(p) ==
    /\ calls[p].pc = "done"
    /\ calls' = [calls EXCEPT ![p] = IdleCall]
    /\ UNCHANGED <<db, loop_vars, store_vars>>

NextInterleaved ==
    \E p \in Callers : Invoke(p) \/ Lookup(p) \/ SignInsert(p) \/ Return(p)

SpecInterleaved == Init /\ [][NextInterleaved]_vars

\* ------------------------------------------------------------------------
\* Properties
\* ------------------------------------------------------------------------

\* A call has returned and the loop has not yet moved on.
Returned == result # None

\* The call returned Ok(SignResult { tx: Some(..) }).
ReturnedSign ==
    /\ Returned
    /\ result[1].ret = "Ok"
    /\ result[1].tx # None

\* The call returned Ok(SignResult { tx: None }).
ReturnedRefuse ==
    /\ Returned
    /\ result[1].ret = "Ok"
    /\ result[1].tx = None

\* The previous outputs the transaction tx spends.
Prevouts(tx) == { tx.input[i] : i \in DOMAIN tx.input }

\* Signature verification, as a verifier of the Spend would do it: does the
\* partial signature raw_sig, put under pubkey, sign input i of tx?
VerifiesFor(tx, i, pubkey, raw_sig) ==
    LET sh == signature_hash_internal_input(tx, i, SIGHASH_ALL)
    IN  /\ sh.ok
        /\ Len(raw_sig) = 2
        /\ raw_sig[2] = SIGHASH_ALL
        /\ raw_sig[1] \in [msg : {sh.hash}, key : {bitcoin_privkey}]
        /\ PubKeyOf(raw_sig[1].key) = pubkey

\* The rows of rows that are about outpoint.
RecordsOf(rows, outpoint) ==
    { r \in rows : <<r.txid, r.vout>> = outpoint }

\* C1: every signature of the cosigner ever sent back in a Sign result for an
\* outpoint O is the one the database records for O (stored signature plus
\* sighash type), so that no two Sign results carry different signatures of
\* the cosigner for the same outpoint.
C1_SameSignaturePerOutpoint ==
    \A p \in handed_out :
        /\ \A q \in handed_out : q[1] = p[1] => q[2] = p[2]
        /\ \E r \in RecordsOf(db, p[1]) : p[2] = Append(r.signature, SIGHASH_ALL)

\* C1's case: a Sign result was returned for a transaction other than the one
\* the cosigner signed when it first saw the outpoints.
C1_Witness ==
    /\ ReturnedSign
    /\ result[1].signed = 0
    /\ \E i \in DOMAIN result[1].tx[1].inputs :
          ~VerifiesFor(result[1].tx[1], i, our_pubkey,
                       result[1].tx[1].inputs[i].partial_sigs[our_pubkey])

\* C2 (invariant I1): the database never holds two rows for one outpoint.
C2_AtMostOneRecordPerOutpoint ==
    \A r1, r2 \in db :
        (r1.txid = r2.txid /\ r1.vout = r2.vout) => r1 = r2

\* C2's case: a call has looked up every previous output of a request that
\* spends an outpoint the database records for a transaction with other outputs.
C2_Witness ==
    /\ Returned
    /\ result[1].lookups = Len(sign_msg[1].input)
    /\ \E o \in Prevouts(sign_msg[1]) :
          \E r \in RecordsOf(db, o) :
              r.signature[1].msg[2] # sign_msg[1].output

\* C3 (invariant I2): when a call returns a Sign result carrying a transaction,
\* the database holds a row for every previous output of that transaction; and
\* when an insert failed, the call returns the Database error and no
\* transaction.
C3_RecordedBeforeReturned ==
    Returned =>
        /\ ReturnedSign =>
              \A o \in Prevouts(result[1].tx[1]) : RecordsOf(db, o) # {}
        /\ result[1].failed = "insert" =>
              /\ result[1].ret = "Err"
              /\ result[1].err = "Database"
              /\ result[1].tx = None

\* C3's case: a fresh request with two inputs was signed, and both rows were
\* inserted by that call.
C3_Witness ==
    /\ ReturnedSign
    /\ result[1].inserts = 2
    /\ Cardinality(db \ db_before) = 2

\* The request is neither finalized nor spends a previous output twice.
Sane(tx) ==
    /\ ~tx.finalized
    /\ \A i, j \in DOMAIN tx.input : tx.input[i] = tx.input[j] => i = j

\* The previous outputs of tx that rows records.
Recorded(rows, tx) == { o \in Prevouts(tx) : RecordsOf(rows, o) # {} }

\* The signature the cosigner computes for input i of tx, as it goes into
\* partial_sigs.
FreshSignature(tx, i) ==
    Append(serialize_der(SecpSign(
        signature_hash_internal_input(tx, i, SIGHASH_ALL).hash,
        bitcoin_privkey)), SIGHASH_ALL)

\* The signature rows holds for input i of tx, as it goes into partial_sigs.
StoredSignature(rows, tx, i) ==
    Append((CHOOSE r \in RecordsOf(rows, tx.input[i]) : TRUE).signature,
           SIGHASH_ALL)

\* C4 (invariant I3): the rows a call adds are none, or one for each previous
\* output of its request.
C4_AllOrNothing ==
    Returned =>
        \/ db = db_before
        \/ { <<r.txid, r.vout>> : r \in db \ db_before } = Prevouts(sign_msg[1])

\* C5: a call in which the computation of a signature hash failed has added
\* no row for any previous output of its request.
C5_NoRecordOnSighashFailure ==
    (Returned /\ result[1].err = "InsanePsbtMissingInput") =>
        /\ result[1].ret = "Err"
        /\ \A o \in Prevouts(sign_msg[1]) : RecordsOf(db, o) = RecordsOf(db_before, o)

\* A well-formed request: sane, every input with its witness UTXO, and no
\* signature under the cosigner's key.
Valid(tx) ==
    /\ Sane(tx)
    /\ \A i \in DOMAIN tx.inputs :
          /\ tx.inputs[i].witness_utxo
          /\ our_pubkey \notin DOMAIN tx.inputs[i].partial_sigs

\* C6 (idempotence): when a call on a valid request T, none of whose previous
\* outputs was recorded, has returned (no access to the database having
\* failed), it returned Sign, and the next call on the same T returns the
\* same Sign result and leaves the database as it is, with exactly one row
\* for each previous output of T; and a call that found every previous output
\* of a valid T recorded with the signatures of T returns T with exactly
\* those signatures added.
C6_Idempotent ==
    /\ ( /\ Returned
         /\ Valid(sign_msg[1])
         /\ Recorded(db_before, sign_msg[1]) = {}
         /\ result[1].failed = "" )
       =>
          LET again == process_sign_message(db, sign_msg[1], 0)
          IN  /\ ReturnedSign
              /\ again.ret = "Ok"
              /\ again.tx = result[1].tx
              /\ again.db = db
              /\ \A o \in Prevouts(sign_msg[1]) :
                    Cardinality(RecordsOf(again.db, o)) = 1
    /\ ( /\ Returned
         /\ Valid(sign_msg[1])
         /\ Recorded(db_before, sign_msg[1]) = Prevouts(sign_msg[1])
         /\ result[1].failed = ""
         /\ \A i \in DOMAIN sign_msg[1].input :
               StoredSignature(db_before, sign_msg[1], i)
                   = FreshSignature(sign_msg[1], i) )
       =>
          /\ ReturnedSign
          /\ result[1].tx[1] =
                [sign_msg[1] EXCEPT !.inputs =
                    [i \in DOMAIN sign_msg[1].inputs |->
                        [sign_msg[1].inputs[i] EXCEPT !.partial_sigs =
                            BTreeInsert(@, our_pubkey,
                                        FreshSignature(sign_msg[1], i))]]]
          /\ db = db_before

\* C6's case: the second call has happened: the request in hand is valid, all
\* its previous outputs were recorded, and what came back is what signing it
\* afresh gives.
C6_Witness ==
    /\ ReturnedSign
    /\ Valid(sign_msg[1])
    /\ Len(sign_msg[1].input) = 2
    /\ Recorded(db_before, sign_msg[1]) = Prevouts(sign_msg[1])
    /\ \A i \in DOMAIN sign_msg[1].inputs :
          result[1].tx[1].inputs[i].partial_sigs[our_pubkey]
              = FreshSignature(sign_msg[1], i)

\* Some but not all previous outputs of the request in hand were recorded.
PartialOverlap ==
    /\ Recorded(db_before, sign_msg[1]) # {}
    /\ Recorded(db_before, sign_msg[1]) # Prevouts(sign_msg[1])

\* C7 (partial-overlap refusal): a call on a sane request with some but not
\* all previous outputs recorded, whose lookups all succeeded, returns the
\* null Sign result, computes no signature, attempts no insert and leaves the
\* database as it was.
C7_PartialOverlapRefused ==
    ( /\ Returned
      /\ Sane(sign_msg[1])
      /\ PartialOverlap
      /\ result[1].failed # "lookup" )
    =>
        /\ ReturnedRefuse
        /\ result[1].signed = 0
        /\ result[1].inserts = 0
        /\ db = db_before

\* C7's case: a request with one recorded and one unrecorded previous output
\* was refused.
C7_Witness ==
    /\ ReturnedRefuse
    /\ Sane(sign_msg[1])
    /\ PartialOverlap

\* Every previous output of the sane request in hand was recorded, no lookup
\* failed, and for some input the stored signature does not verify against
\* the request.
Tampered ==
    /\ Returned
    /\ Sane(sign_msg[1])
    /\ Recorded(db_before, sign_msg[1]) = Prevouts(sign_msg[1])
    /\ result[1].failed = ""
    /\ \E i \in DOMAIN sign_msg[1].input :
          ~VerifiesFor(sign_msg[1], i, our_pubkey,
                       StoredSignature(db_before, sign_msg[1], i))

C9_FreshSigning ==
    ( /\ Returned
      /\ Sane(sign_msg[1])
      /\ Recorded(db_before, sign_msg[1]) = {}
      /\ \A i \in DOMAIN sign_msg[1].inputs : sign_msg[1].inputs[i].witness_utxo
      /\ result[1].failed = "" )
    =>
        /\ ReturnedSign
        /\ \A i \in DOMAIN sign_msg[1].inputs :
              LET before == sign_msg[1].inputs[i].partial_sigs
                  after  == result[1].tx[1].inputs[i].partial_sigs
              IN  /\ DOMAIN after = (DOMAIN before) \cup {our_pubkey}
                  /\ Cardinality(DOMAIN after) = Cardinality(DOMAIN before) + 1
                  /\ after[our_pubkey] = FreshSignature(sign_msg[1], i)
        /\ db_before \subseteq db
        /\ Cardinality(db \ db_before) = Len(sign_msg[1].input)
        /\ \A o \in Prevouts(sign_msg[1]) : Cardinality(RecordsOf(db, o)) = 1

\* C10 (full replay): a call on a sane request whose previous outputs were all
\* recorded computes no signature and leaves the database as it was, and when
\* no lookup failed it returns Sign with, in input i, the signature stored for
\* input i's previous output under the cosigner's key and the other partial
\* signatures as they came.
C10_ReplayAttachesStored ==
    ( /\ Returned
      /\ Sane(sign_msg[1])
      /\ Recorded(db_before, sign_msg[1]) = Prevouts(sign_msg[1]) )
    =>
        /\ result[1].signed = 0
        /\ result[1].inserts = 0
        /\ db = db_before
        /\ result[1].failed = "" =>
              /\ ReturnedSign
              /\ result[1].tx[1].input = sign_msg[1].input
              /\ \A i \in DOMAIN sign_msg[1].inputs :
                    LET before == sign_msg[1].inputs[i].partial_sigs
                        after  == result[1].tx[1].inputs[i].partial_sigs
                    IN  /\ after[our_pubkey]
                              = StoredSignature(db_before, sign_msg[1], i)
                        /\ \A k \in (DOMAIN before) \ {our_pubkey} :
                              k \in DOMAIN after /\ after[k] = before[k]

\* C10's case: a two-input request was replayed whose previous outputs were
\* first signed the other way round or in separate transactions.
C10_Witness ==
    /\ ReturnedSign
    /\ Len(sign_msg[1].input) = 2
    /\ Recorded(db_before, sign_msg[1]) = Prevouts(sign_msg[1])
    /\ \A i \in DOMAIN sign_msg[1].input :
          \E r \in RecordsOf(db_before, sign_msg[1].input[i]) :
              r.signature[1].msg[3] # i \/ Len(r.signature[1].msg[1]) = 1

Duplicated(tx) ==
    \E i, j \in DOMAIN tx.input : i # j /\ tx.input[i] = tx.input[j]

\* C12: a call on an unfinalized transaction with a duplicated previous
\* output returns the Garbage error without having made any lookup, and adds
\* no row.
C12_DuplicateIsGarbageBeforeLedger ==
    (Returned /\ ~sign_msg[1].finalized /\ Duplicated(sign_msg[1])) =>
        /\ result[1].ret = "Err"
        /\ result[1].err = "Garbage"
        /\ result[1].lookups = 0
        /\ result[1].inserts = 0
        /\ db = db_before

\* C13: rows are only ever added: a row of the table is still there, with
\* the same signature, after every step.
C13_AppendOnly ==
    [][\A r \in db : r \in db']_vars

\* C13's case: a call has returned on a request that spends a recorded
\* previous output and that the cosigner would sign otherwise than recorded.
C13_Witness ==
    /\ Returned
    /\ Sane(sign_msg[1])
    /\ \E i \in DOMAIN sign_msg[1].input :
          /\ RecordsOf(db_before, sign_msg[1].input[i]) # {}
          /\ sign_msg[1].inputs[i].witness_utxo
          /\ StoredSignature(db_before, sign_msg[1], i)
                 # FreshSignature(sign_msg[1], i)

\* C14: with calls interleaved lookup by lookup and insert by insert, the
\* table never holds two different signatures for one previous output.
C14_OneSignatureInterleaved ==
    \A r1, r2 \in db :
        (r1.txid = r2.txid /\ r1.vout = r2.vout) =>
            r1.signature = r2.signature

\* C14's case: two calls on different transactions spending a common previous
\* output both went on to sign; one was answered with its signatures and the
\* other's insert was turned down by the table.
C14_Witness ==
    \E p, q \in Callers :
        /\ p # q
        /\ calls[p].pc = "done" /\ calls[q].pc = "done"
        /\ calls[p].ret = "Ok" /\ calls[p].result_tx # None
        /\ calls[p].signatures = <<>>
        /\ calls[q].err = "Database" /\ ~calls[q].io_failed
        /\ calls[p].tx # calls[q].tx
        /\ Prevouts(calls[p].tx[1]) \cap Prevouts(calls[q].tx[1]) # {}

\* The version the database file stores, when it stores one.
StoredVersion == db_params[Len(db_params)].version

\* C15: when setup_db runs on an existing database file it leaves the file,
\* its version and its rows as they are, and, when the version can be read,
\* it fails with the version error iff the stored version is not DB_VERSION
\* and succeeds iff it is.
C15_VersionChecked ==
    [][(setup = "none" /\ setup' # "none" /\ db_exists) =>
          /\ db_exists' /\ db_params' = db_params /\ db' = db
          /\ (db_params # <<>> /\ setup' # "Executing query") =>
                /\ (setup' = "Unexpected database version")
                       <=> (StoredVersion # DB_VERSION)
                /\ (setup' = "Ok") <=> (StoredVersion = DB_VERSION)]_vars

\* C15's case: setup_db has turned down a database of a later version that
\* holds rows.
C15_Witness ==
    /\ setup = "Unexpected database version"
    /\ db_exists
    /\ StoredVersion > DB_VERSION
    /\ db # {}

\* C16: started on a database file made under another network than the
\* configured one, setup_db fails; made under the configured network and of
\* the right version, it succeeds unless the file cannot be read.
C16_NetworkChecked ==
    (setup # "none" /\ db_exists) =>
        /\ db_made_for # network => setup # "Ok"
        /\ (db_made_for = network /\ db_params # <<>>
               /\ StoredVersion = DB_VERSION)
              => setup \in { "Ok", "Executing query" }

\* Previous outputs to look up: those requests spend and some that are never
\* spent, each of which shares a txid or a vout with one that is.
ProbeOutpoints == Outpoints \cup { <<0, 1>>, <<1, 2>>, <<2, 0>> }

\* C17: db_signed_outpoint finds a row for a previous output iff an insert
\* for exactly that previous output returned Ok, and the row holds the
\* signature inserted; and a call that made lookups only leaves the table as
\* it was.
C17_LookupExact ==
    /\ \A o \in ProbeOutpoints :
          LET found == db_signed_outpoint(db, o)
          IN  /\ (found # None) <=> (\E c \in committed : c[1] = o)
              /\ found # None => <<o, found[1].signature>> \in committed
    /\ (Returned /\ result[1].inserts = 0) => db = db_before

\* C17's case: with a row for one previous output only, a request spending
\* the other one alone was looked up and signed afresh.
C17_Witness ==
    /\ ReturnedSign
    /\ result[1].lookups = 1
    /\ result[1].signed = 1
    /\ Cardinality(db_before) = 1
    /\ Recorded(db_before, sign_msg[1]) = {}

\* C18: an insert for a previous output that has a row fails with the
\* Database error and leaves the table as it was.
C18_InsertOnRecordedFails ==
    [][\A p \in Callers :
          ( /\ calls[p].pc = "sign"
            /\ calls'[p] # calls[p]
            /\ our_pubkey \notin
                   DOMAIN calls[p].psbtins[calls[p].i].partial_sigs
            /\ signature_hash_internal_input(calls[p].tx[1], calls[p].i,
                                             SIGHASH_ALL).ok
            /\ RecordsOf(db, calls[p].tx[1].input[calls[p].i]) # {} )
          => /\ db' = db
             /\ calls'[p].pc = "done"
             /\ calls'[p].ret = "Err"
             /\ calls'[p].err = "Database"]_vars

\* C18's case: the insert for the second input of a call was turned down by
\* the table, which holds a row of another transaction for it.
C18_Witness ==
    \E p \in Callers :
        /\ calls[p].pc = "done"
        /\ calls[p].err = "Database"
        /\ ~calls[p].io_failed
        /\ calls[p].i = 2
        /\ \E r \in RecordsOf(db, calls[p].tx[1].input[2]) :
              r.signature[1].msg[2] # calls[p].tx[1].output

\* C19: the rows of a fresh call are written as one batch: when the call has
\* attempted an insert, either it returned Sign and the table has one new row
\* for each input, or it did not and the table is as it was.
C19_FreshRecordsInOneBatch ==
    (Returned /\ result[1].inserts > 0) =>
        IF ReturnedSign
        THEN /\ db_before \subseteq db
             /\ Cardinality(db \ db_before) = Len(sign_msg[1].input)
        ELSE db = db_before

\* C20: at most one call of process_sign_message is running, and while one
\* is running the loop takes no connection from the listener.
C20_OneCallAtATime ==
    [][/\ in_flight' <= 1
       /\ in_flight > 0 => pending' >= pending]_vars

\* C20's case: a manager has connected while a call is running.
C20_Witness ==
    /\ in_flight = 1
    /\ pending = 1
    /\ sign_msg # None
    /\ result = None

\* The <<outpoint, signature>> pairs rows holds.
RowPairs(rows) == { <<<<r.txid, r.vout>>, r.signature>> : r \in rows }

C22_HandshakeFailureGoesOn ==
    /\ [](last_conn = "handshake_failed" =>
             /\ setup = "Ok"
             /\ sign_msg = None
             /\ result = None
             /\ in_flight = 0
             /\ pending > 0 => ENABLED Accept)
    /\ [][(last_conn' = "handshake_failed" /\ pending' < pending) =>
             /\ db' = db
             /\ in_flight' = in_flight
             /\ committed' = committed
             /\ handed_out' = handed_out]_vars

\* C22's case: a handshake has failed and the next connection is waiting.
C22_Witness ==
    /\ last_conn = "handshake_failed"
    /\ pending > 0
    /\ db # {}

\* C23: whatever process_sign_message did with a request, the process is up
\* afterwards.
C23_AnyOutcomeLeavesProcessUp ==
    Returned =>
        /\ Running
        /\ result[1].ret \in { "Ok", "Err" }
        /\ ENABLED Continue

\* C24: after a message that cannot be decoded or is not a Sign request, the
\* process is up and the loop is waiting for a connection, no call running;
\* the step that read the message starts no call and leaves the table as it
\* was.
C24_OtherMessagesDropped ==
    /\ [](last_conn \in { "undecodable", "not_sign" } =>
             /\ setup = "Ok"
             /\ sign_msg = None
             /\ result = None
             /\ in_flight = 0)
    /\ [][(last_conn' \in { "undecodable", "not_sign" } /\ pending' < pending) =>
             /\ db' = db
             /\ sign_msg' = None
             /\ in_flight' = in_flight
             /\ committed' = committed
             /\ handed_out' = handed_out]_vars

\* C24's case: a message that is not a Sign request was read while the table
\* holds rows.
C24_Witness ==
    /\ last_conn = "not_sign"
    /\ db # {}
    /\ sign_msg = None

StoredMismatch ==
    \E i \in DOMAIN sign_msg[1].input :
        /\ RecordsOf(db_before, sign_msg[1].input[i]) # {}
        /\ ~VerifiesFor(sign_msg[1], i, our_pubkey,
                        StoredSignature(db_before, sign_msg[1], i))

C26_DecisionTable ==
    Returned =>
        LET tx  == sign_msg[1]
            out == result[1]
        IN  /\ out.ret \in { "Ok", "Err" }
            /\ IF tx.finalized
               THEN out.ret = "Err" /\ out.err = "Garbage"
               ELSE IF out.failed = "lookup"
               THEN out.ret = "Err" /\ out.err = "Database"
               ELSE IF Duplicated(tx)
               THEN out.ret = "Err" /\ out.err = "Garbage"
               ELSE IF Recorded(db_before, tx) = Prevouts(tx)
               THEN ReturnedSign /\ out.signed = 0
               ELSE IF Recorded(db_before, tx) # {}
               THEN ReturnedRefuse
               ELSE IF /\ \A i \in DOMAIN tx.inputs : tx.inputs[i].witness_utxo
                       /\ out.failed = ""
               THEN ReturnedSign /\ out.signed = Len(tx.input)
               ELSE /\ out.ret = "Err"
                    /\ out.err \in { "InsanePsbtMissingInput", "Database" }

\* C27: create_db called where a database file exists fails with the
\* "Creating db file" error and leaves the file, its version row and its rows
\* as they were.
C27_CreateOnExistingRefused ==
    [][(setup = "none" /\ setup' = "none" /\ db_exists) =>
          /\ created' = "Creating db file"
          /\ db_exists'
          /\ db_params' = db_params
          /\ db' = db]_vars

\* C27's case: create_db was turned down on a database that holds rows.
C27_Witness ==
    /\ created = "Creating db file"
    /\ db_exists
    /\ db_params # <<>>
    /\ db # {}

\* A step that starts the process again.
RestartStep ==
    /\ last_conn' = "none"
    /\ pending' = 0
    /\ sign_msg' = None
    /\ result' = None

\* C28: started again on its database file, cosignerd finds it with every
\* row and the version row as they were, and setup_db succeeds if the version
\* can be read; and no call computes a signature for a request one of whose
\* previous outputs had an insert return Ok at any time before, whether the
\* process has been started again since or not.
C28_RecordsSurviveRestart ==
    /\ [][RestartStep =>
             /\ db' = db
             /\ db_params' = db_params
             /\ db_exists'
             /\ setup' \in { "Ok", "Executing query" }]_vars
    /\ []((Returned /\ Sane(sign_msg[1])
              /\ \E c \in committed \ RowPairs(db \ db_before) :
                    c[1] \in Prevouts(sign_msg[1]))
          => /\ result[1].signed = 0
             /\ result[1].inserts = 0
             /\ db = db_before)

\* C28's case: the process has been started again, setup_db succeeding, on a
\* database that holds rows.
C28_Witness ==
    /\ setup = "Ok"
    /\ last_conn = "none"
    /\ sign_msg = None
    /\ db # {}
    /\ committed # {}

\* C29: a call that found no previous output of its request recorded never
\* fails the assert of the signing loop, whatever partial signatures the
\* request carried.
C29_FreshAssertNeverFails ==
    ( /\ Returned
      /\ Sane(sign_msg[1])
      /\ result[1].lookups = Len(sign_msg[1].input)
      /\ result[1].failed # "lookup"
      /\ Recorded(db_before, sign_msg[1]) = {} )
    => result[1].ret # "Panic"

\* C30: in a Sign result that carries a transaction, every input holds
\* exactly one partial signature more than the same input of the request.
C30_OneMoreSignaturePerInput ==
    ReturnedSign =>
        \A i \in DOMAIN sign_msg[1].inputs :
            Cardinality(DOMAIN result[1].tx[1].inputs[i].partial_sigs)
                = Cardinality(DOMAIN sign_msg[1].inputs[i].partial_sigs) + 1

\* The inputs of tx whose previous output rows records.
SignedInputs(rows, tx) ==
    { i \in DOMAIN tx.input : RecordsOf(rows, tx.input[i]) # {} }

\* C31: when a call on a transaction that is not finalized returns Ok with
\* no transaction, the number of inputs whose previous output has a row, after
\* the call as before it, is greater than 0 and smaller than the number of
\* inputs.
C31_NullOnlyOnPartialOverlap ==
    (ReturnedRefuse /\ ~sign_msg[1].finalized) =>
        /\ Cardinality(SignedInputs(db, sign_msg[1])) > 0
        /\ Cardinality(SignedInputs(db, sign_msg[1])) < Len(sign_msg[1].input)
        /\ SignedInputs(db_before, sign_msg[1]) = SignedInputs(db, sign_msg[1])

\* C31's case: a request with two inputs was refused, the second of whose
\* previous outputs was recorded.
C31_Witness ==
    /\ ReturnedRefuse
    /\ Len(sign_msg[1].input) = 2
    /\ SignedInputs(db, sign_msg[1]) = { 2 }

C33_LedgerFailureLeavesNothing ==
    (Returned /\ result[1].failed \in { "lookup", "insert" }) =>
        /\ result[1].ret = "Err"
        /\ result[1].err = "Database"
        /\ result[1].tx = None
        /\ db = db_before

\* C34: when the call on the request in hand has returned Ok, exactly one
\* response has been written on its connection, the result of the call; when
\* it has returned an error, none has; and as long as that request is in hand
\* no other call is made on it: the result, the table and what was written
\* stay as they are.
C34_OneResponsePerSign ==
    /\ [](Returned =>
            /\ result[1].ret = "Ok" =>
                  /\ Len(written) = 1
                  /\ written[1] = result[1].tx
            /\ ReturnedSign => written = << Some(result[1].tx[1]) >>
            /\ ReturnedRefuse => written = << null_signature >>
            /\ result[1].ret # "Ok" => written = <<>>)
    /\ [](~Returned => written = <<>>)
    /\ [][(result = None /\ result' # None) => (in_flight = 1 /\ in_flight' = 0)]_vars
    /\ [][(result # None /\ sign_msg' = sign_msg) =>
            /\ result' = result
            /\ written' = written
            /\ db' = db]_vars

\* C34's case: a call that added a row has returned an error, and nothing
\* was written.
C34_Witness ==
    /\ Returned
    /\ result[1].ret = "Err"
    /\ db # db_before
    /\ written = <<>>

\* C35: every row of the table is for a previous output whose signature was
\* sent back in a Sign result.
C35_NoBurnedOutpoints ==
    \A r \in db : \E h \in handed_out : h[1] = <<r.txid, r.vout>>

\* Caller p has ended, having found no row in its lookups and signed every
\* input: it returned a Sign result with signatures it computed.
SignedFresh(p) ==
    /\ calls[p].pc = "done"
    /\ calls[p].ret = "Ok"
    /\ calls[p].result_tx # None
    /\ calls[p].signatures = <<>>

\* C36: with calls interleaved, of two calls on different transactions with
\* a common previous output, both of which found no row in their lookups, at
\* most one returns a Sign result; the other, when it has ended, has returned
\* an error and no transaction, and the table holds one row for the common
\* previous output, with the signature of the call that returned Sign.
C36_OneFreshSignerInterleaved ==
    \A p, q \in Callers :
        ( /\ p # q
          /\ SignedFresh(p)
          /\ calls[q].pc = "done"
          /\ calls[q].signatures = <<>>
          /\ calls[q].tx # calls[p].tx
          /\ Prevouts(calls[p].tx[1]) \cap Prevouts(calls[q].tx[1]) # {} )
        =>
            /\ ~SignedFresh(q)
            /\ calls[q].ret = "Err"
            /\ calls[q].result_tx = None
            /\ \A i \in DOMAIN calls[p].tx[1].input :
                  RecordsOf(db, calls[p].tx[1].input[i])
                      = { DbRow(calls[p].tx[1].input[i],
                                serialize_der(SecpSign(
                                    signature_hash_internal_input(
                                        calls[p].tx[1], i, SIGHASH_ALL).hash,
                                    bitcoin_privkey))) }

\* C36's case: a call on a one-input transaction and a call on a two-input
\* transaction with a common previous output both went on to sign; the first
\* returned Sign and the other's insert was turned down by the table after it
\* had added a row of its own.
C36_Witness ==
    \E p, q \in Callers :
        /\ p # q
        /\ SignedFresh(p)
        /\ calls[q].pc = "done"
        /\ calls[q].signatures = <<>>
        /\ calls[q].err = "Database"
        /\ ~calls[q].io_failed
        /\ Len(calls[p].tx[1].input) = 1
        /\ Len(calls[q].tx[1].input) = 2
        /\ Prevouts(calls[p].tx[1]) \cap Prevouts(calls[q].tx[1]) # {}
        /\ RecordsOf(db, calls[q].tx[1].input[1]) # {}

====
